---- MODULE Spec2Model ----
(***************************************************************************)
(* Verification model of three demos of the design-pattern corpus:         *)
(*   - object-pool/solution.py : ObjectPool (acquire / release / cleanup)  *)
(*   - singleton/solution.py   : ConfigurationManager                      *)
(*   - command/solution.py     : TextEditor, commands and CommandManager   *)
(* Each demo is a program of its own; each has a specification of its own  *)
(* (SpecPool, SpecSingleton, SpecCommand) over its own variables.          *)
(***************************************************************************)
EXTENDS Integers, Sequences, FiniteSets, Bags, TLC

(***************************************************************************)
(* Bounds of the model.                                                    *)
(***************************************************************************)
NumThreads == 3       \* worker threads using the pool
MaxPoolSize == 2      \* largest max_size a pool is built with
MaxCreated == 3       \* objects the factory may create in one run
MaxAcquired == 3      \* successful acquires in one run
MaxTimeout == 1       \* largest timeout (in seconds) passed to acquire
NumCfgThreads == 2    \* threads using the ConfigurationManager
MaxGets == 2          \* get calls in one run
MaxWatchers == 1      \* watchers registered in one run
MaxValue == 1         \* largest value a worker writes
MaxCalls == 4         \* calls made to the CommandManager in one run
MaxQueue == 2         \* commands waiting in the command queue
MaxLength == 2        \* largest length of a DeleteTextCommand
MaxPosition == 2      \* largest position of a MoveCursorCommand
MaxOps == 5           \* calls made to the memento editor and its history in one run
MaxCharacters == 1    \* largest number of characters TextEditor.delete is called with
MaxSelect == 2        \* largest position select_text is called with
NumAircraft == 3      \* aircraft registered with the tower
MaxGrants == 2        \* takeoffs and landings the tower grants in one run

Threads == 1..NumThreads

\* Python's None, as an object reference (object ids start at 1).
None == 0
\* acquire(timeout=None)
NoTimeout == -1
\* The slice of at most 1.0 s that acquire waits on the condition.
WaitSlice == 1

Min(a, b) == IF a <= b THEN a ELSE b

(***************************************************************************)
(* ObjectPool state.  Objects are numbered in creation order.  valid is    *)
(* the set of pooled objects for which is_valid() answers True (age,       *)
(* request count and session permitting); an object never becomes valid    *)
(* again.  waiters is the condition variable's queue of blocked threads.   *)
(* The counters _total_returned and _total_expired, which no operation     *)
(* reads, are left out.  ppc[t] is thread t's position:                    *)
(*   "idle"      outside the pool                                          *)
(*   "enter"     in acquire, about to run the loop for the first time      *)
(*   "waiting"   in acquire, blocked in self._condition.wait(..)           *)
(*   "woken"     in acquire, wait(..) has returned, about to loop again    *)
(*   "holding"   acquire returned held[t]                                  *)
(*   "timed_out" acquire raised TimeoutError                               *)
(* budget[t] is timeout - elapsed of the running acquire (NoTimeout for    *)
(* timeout=None), waitLeft[t] the time left of the current wait(..),       *)
(* waited[t] whether the running (or last) acquire has waited at all.      *)
(* Every block of code run under self._lock is one step.                   *)
(***************************************************************************)
VARIABLES min_size, max_size, available, in_use, valid,
          total_created, total_acquired,
          waiters, ppc, budget, waitLeft, waited, held, cleanup_pc

poolConfig == <<min_size, max_size>>
poolObjects == <<available, in_use, valid, total_created, total_acquired>>
poolThreads == <<waiters, ppc, budget, waitLeft, waited, held>>
poolVars == <<poolConfig, poolObjects, poolThreads, cleanup_pc>>

\* The state of the ConfigurationManager demo (described with its actions)
VARIABLES instance, instances, initialized, cfg_lock, config_data, environment,
          access_count, watchers, loads, get_calls, written, env_returned,
          spc, ref, skey, sval, reg, env_step

singObject == <<instance, instances, initialized, config_data, environment,
                access_count, watchers>>
singGhost == <<loads, get_calls, written, env_returned>>
singThreads == <<spc, ref, skey, sval, reg, env_step>>
singVars == <<singObject, cfg_lock, singGhost, singThreads>>

\* The state of the text editor demo (described with its actions)
VARIABLES content, cursor_position, undo_stack, redo_stack, command_queue,
          before_stack, calls, last_call

cmdVars == <<content, cursor_position, undo_stack, redo_stack, command_queue,
             before_stack, calls, last_call>>

\* The state of the memento demo (described with its actions)
VARIABLES text_editor, history, captured, last_op, ops

mementoVars == <<text_editor, history, captured, last_op, ops>>

\* The state of the air traffic control demo (described with its actions)
VARIABLES status, takeoff_queue, landing_queue, runway_occupied,
          current_runway_user, sequences, grants, in_emergency, last_grant

towerVars == <<takeoff_queue, landing_queue, runway_occupied, current_runway_user>>
mediatorVars == <<status, towerVars, sequences, grants, in_emergency, last_grant>>

\* The state of the HTTP request builder demo (described with its actions)
VARIABLES builder, outcome

builderVars == <<builder, outcome>>

vars == <<poolVars, singVars, cmdVars, mementoVars, mediatorVars, builderVars>>

\* What the actions of one demo leave alone: the state of the others
notPool == <<singVars, cmdVars, mementoVars, mediatorVars, builderVars>>
notSingleton == <<poolVars, cmdVars, mementoVars, mediatorVars, builderVars>>
notCommand == <<poolVars, singVars, mementoVars, mediatorVars, builderVars>>
notMemento == <<poolVars, singVars, cmdVars, mediatorVars, builderVars>>
notMediator == <<poolVars, singVars, cmdVars, mementoVars, builderVars>>
notBuilder == <<poolVars, singVars, cmdVars, mementoVars, mediatorVars>>


Range(s) == {s[i] : i \in DOMAIN s}

RECURSIVE DropExpired(_, _)
\* acquire's "get_nowait / is_valid / continue" loop: the queue left once the
\* expired objects at its head are thrown away.
DropExpired(q, ok) ==
    IF q = <<>> THEN q
    ELSE IF Head(q) \in ok THEN q
    ELSE DropExpired(Tail(q), ok)

RECURSIVE KeepValid(_, _)
\* _cleanup_expired_objects: the valid objects of the queue, in order.
KeepValid(q, ok) ==
    IF q = <<>> THEN <<>>
    ELSE IF Head(q) \in ok THEN <<Head(q)>> \o KeepValid(Tail(q), ok)
    ELSE KeepValid(Tail(q), ok)

RECURSIVE RemoveFirst(_, _)
\* threading.Condition.wait when it was not notified: self._waiters.remove(waiter)
RemoveFirst(q, x) ==
    IF q = <<>> THEN <<>>
    ELSE IF Head(q) = x THEN Tail(q)
    ELSE <<Head(q)>> \o RemoveFirst(Tail(q), x)

\* current_total = self._available.qsize() + len(self._in_use)
CurrentTotal(q, used) == Len(q) + Cardinality(used)

\* (mutant) the limit test off by one: "current_total <= self.max_size"
CanCreateOffByOne(total) == total <= max_size

\* acquire: "if current_total < self.max_size" -- a new object may be created
CanCreate(total) == total < max_size

\* (mutant) the timeout test as "remaining < 0"
TimedOutStrict(remaining) == remaining < 0

\* acquire: "if remaining <= 0: raise TimeoutError"
TimedOut(remaining) == remaining <= 0

\* (mutant) the maintenance pass without its "self.max_size - current_total" cap
ToCreateUncapped(current_available, current_total) ==
    IF current_available < min_size THEN min_size - current_available ELSE 0

\* _ensure_minimum_size: how many objects the maintenance pass creates
ToCreate(current_available, current_total) ==
    IF current_available < min_size /\ current_total < max_size
    THEN Min(min_size - current_available, max_size - current_total)
    ELSE 0

\* _initialize_pool: the queue of the first n objects
InitialObjects(n) == [i \in 1..n |-> i]

\* ObjectPool.__init__(factory, min_size=mn, max_size=mx)
PoolInit(mn, mx) ==
    /\ min_size = mn
    /\ max_size = mx
    /\ available = InitialObjects(mn)
    /\ in_use = {}
    /\ valid = 1..mn
    /\ total_created = mn
    /\ total_acquired = 0
    /\ waiters = <<>>
    /\ ppc = [t \in Threads |-> "idle"]
    /\ budget = [t \in Threads |-> NoTimeout]
    /\ waitLeft = [t \in Threads |-> 0]
    /\ waited = [t \in Threads |-> FALSE]
    /\ held = [t \in Threads |-> None]
    /\ cleanup_pc = "cleanup"

\* Thread t calls acquire(timeout): start_time is taken, the lock is awaited.
AcquireCall(t, timeout) ==
    /\ ppc[t] = "idle"
    /\ ppc' = [ppc EXCEPT ![t] = "enter"]
    /\ budget' = [budget EXCEPT ![t] = timeout]
    /\ UNCHANGED <<notPool, poolConfig, poolObjects, waiters, waitLeft, waited, held,
                   cleanup_pc>>

\* One pass of acquire's "while True" under the lock, from the top of the loop
\* to the return, the raise or the wait.
AcquireLoop(t) ==
    /\ ppc[t] \in {"enter", "woken"}
    /\ LET q == DropExpired(available, valid)
       IN IF q # <<>>
          THEN \* an available, valid object
               /\ total_acquired < MaxAcquired
               /\ available' = Tail(q)
               /\ in_use' = in_use \cup {Head(q)}
               /\ total_acquired' = total_acquired + 1
               /\ held' = [held EXCEPT ![t] = Head(q)]
               /\ ppc' = [ppc EXCEPT ![t] = "holding"]
               /\ budget' = [budget EXCEPT ![t] = NoTimeout]
               /\ UNCHANGED <<valid, total_created, waiters, waitLeft, waited>>
          ELSE IF CanCreate(CurrentTotal(q, in_use))
          THEN \* create a new object for immediate use
               /\ total_acquired < MaxAcquired
               /\ total_created < MaxCreated
               /\ available' = q
               /\ in_use' = in_use \cup {total_created + 1}
               /\ valid' = valid \cup {total_created + 1}
               /\ total_created' = total_created + 1
               /\ total_acquired' = total_acquired + 1
               /\ held' = [held EXCEPT ![t] = total_created + 1]
               /\ ppc' = [ppc EXCEPT ![t] = "holding"]
               /\ budget' = [budget EXCEPT ![t] = NoTimeout]
               /\ UNCHANGED <<waiters, waitLeft, waited>>
          ELSE IF budget[t] # NoTimeout /\ TimedOut(budget[t])
          THEN \* raise TimeoutError
               /\ available' = q
               /\ ppc' = [ppc EXCEPT ![t] = "timed_out"]
               /\ budget' = [budget EXCEPT ![t] = NoTimeout]
               /\ UNCHANGED <<in_use, valid, total_created, total_acquired,
                              held, waiters, waitLeft, waited>>
          ELSE \* self._condition.wait(min(remaining, 1.0)) or wait(1.0)
               /\ available' = q
               /\ ppc' = [ppc EXCEPT ![t] = "waiting"]
               /\ waiters' = Append(waiters, t)
               /\ waitLeft' = [waitLeft EXCEPT ![t] =
                                 IF budget[t] = NoTimeout THEN WaitSlice
                                 ELSE Min(budget[t], WaitSlice)]
               /\ waited' = [waited EXCEPT ![t] = TRUE]
               /\ UNCHANGED <<in_use, valid, total_created, total_acquired, held,
                              budget>>
    /\ UNCHANGED <<notPool, poolConfig, cleanup_pc>>

\* The timed wait of thread t runs out: wait(..) returns False.
WaitTimeout(t) ==
    /\ ppc[t] = "waiting"
    /\ waitLeft[t] = 0
    /\ waiters' = RemoveFirst(waiters, t)
    /\ ppc' = [ppc EXCEPT ![t] = "woken"]
    /\ UNCHANGED <<notPool, poolConfig, poolObjects, budget, waitLeft, waited, held, cleanup_pc>>

\* wait(..) returns although nobody notified and the time is not up.
SpuriousWakeup(t) ==
    /\ ppc[t] = "waiting"
    /\ waitLeft[t] > 0
    /\ waiters' = RemoveFirst(waiters, t)
    /\ waitLeft' = [waitLeft EXCEPT ![t] = 0]
    /\ ppc' = [ppc EXCEPT ![t] = "woken"]
    /\ UNCHANGED <<notPool, poolConfig, poolObjects, budget, waited, held, cleanup_pc>>

\* The caller handles the TimeoutError and goes on.
HandleTimeout(t) ==
    /\ ppc[t] = "timed_out"
    /\ ppc' = [ppc EXCEPT ![t] = "idle"]
    /\ waited' = [waited EXCEPT ![t] = FALSE]
    /\ UNCHANGED <<notPool, poolConfig, poolObjects, waiters, budget, waitLeft, held,
                   cleanup_pc>>

\* (mutant) release forgets to put the object back
PutBackForgotten(q, obj) == q

\* release's "self._available.put(obj)"
PutBack(q, obj) == Append(q, obj)

\* release(obj) by thread t, under the lock; notify() wakes the thread that
\* has waited longest.
ReleaseOp(t, obj) ==
    LET inPool == obj # None /\ obj \in in_use
        ok == obj \in valid
        wake == inPool /\ ok /\ waiters # <<>>
    IN /\ in_use' = IF inPool THEN in_use \ {obj} ELSE in_use
       /\ available' = IF inPool /\ ok THEN PutBack(available, obj) ELSE available
       /\ waiters' = IF wake THEN Tail(waiters) ELSE waiters
       /\ waitLeft' = [x \in Threads |->
                         IF wake /\ x = Head(waiters) THEN 0 ELSE waitLeft[x]]
       /\ ppc' = [x \in Threads |->
                    IF x = t THEN "idle"
                    ELSE IF wake /\ x = Head(waiters) THEN "woken"
                    ELSE ppc[x]]

\* Thread t returns the object it acquired.
Release(t) ==
    /\ ppc[t] = "holding"
    /\ ReleaseOp(t, held[t])
    /\ held' = [held EXCEPT ![t] = None]
    /\ waited' = [waited EXCEPT ![t] = FALSE]
    /\ UNCHANGED <<notPool, poolConfig, valid, total_created, total_acquired,
                   budget, cleanup_pc>>

\* HTTPConnection.is_valid turns False for pooled object o (its age passes
\* max_age, its request_count reaches max_requests, or its session is gone).
Expire(o) ==
    /\ o \in valid
    /\ valid' = valid \ {o}
    /\ UNCHANGED <<notPool, poolConfig, available, in_use, total_created, total_acquired,
                   poolThreads, cleanup_pc>>

\* The cleanup thread, after its sleep: _cleanup_expired_objects()
CleanupExpired ==
    /\ cleanup_pc = "cleanup"
    /\ available' = KeepValid(available, valid)
    /\ cleanup_pc' = "ensure"
    /\ UNCHANGED <<notPool, poolConfig, in_use, valid, total_created, total_acquired,
                   poolThreads>>

\* The cleanup thread: _ensure_minimum_size(), then back to sleep.
EnsureMinimumSize ==
    /\ cleanup_pc = "ensure"
    /\ LET n == ToCreate(Len(available), CurrentTotal(available, in_use))
       IN /\ total_created + n <= MaxCreated
          /\ available' = available \o [i \in 1..n |-> total_created + i]
          /\ valid' = valid \cup (total_created + 1 .. total_created + n)
          /\ total_created' = total_created + n
    /\ cleanup_pc' = "cleanup"
    /\ UNCHANGED <<notPool, poolConfig, in_use, total_acquired, poolThreads>>

\* One second passes: every running timeout and every timed wait gets shorter.
Tick ==
    /\ budget' = [t \in Threads |->
                    IF ppc[t] \in {"enter", "waiting", "woken"} /\ budget[t] > 0
                    THEN budget[t] - 1 ELSE budget[t]]
    /\ waitLeft' = [t \in Threads |->
                      IF ppc[t] = "waiting" /\ waitLeft[t] > 0
                      THEN waitLeft[t] - 1 ELSE waitLeft[t]]
    /\ UNCHANGED <<notPool, poolConfig, poolObjects, waiters, ppc, waited, held, cleanup_pc>>

Timeouts == {NoTimeout} \cup (0..MaxTimeout)

PoolNext ==
    \/ \E t \in Threads, timeout \in Timeouts : AcquireCall(t, timeout)
    \/ \E t \in Threads : AcquireLoop(t)
    \/ \E t \in Threads : WaitTimeout(t)
    \/ \E t \in Threads : SpuriousWakeup(t)
    \/ \E t \in Threads : HandleTimeout(t)
    \/ \E t \in Threads : Release(t)
    \/ \E o \in 1..MaxCreated : Expire(o)
    \/ CleanupExpired
    \/ EnsureMinimumSize
    \/ Tick

(***************************************************************************)
(* ConfigurationManager (singleton/solution.py).                           *)
(*                                                                         *)
(* instance is the class attribute _instance (None or the object),         *)
(* instances the number of objects ever allocated, initialized the         *)
(* object's _initialized attribute ("absent" until line 31 sets it),       *)
(* cfg_lock the thread holding the class's threading.Lock (0: free; the    *)
(* lock is not reentrant).  config_data is the nested dictionary, a key    *)
(* such as "app.debug" is the sequence key.split('.') yields.  loads       *)
(* counts the runs of _load_default_config, get_calls the get calls that   *)
(* have returned, written[k] is the value of the last set(k, ..) to have   *)
(* assigned, env_returned the environment of the last set_environment call *)
(* that returned.  Per thread: spc its position, ref the reference its     *)
(* constructor call returned, skey / sval the arguments of the running     *)
(* get or set, reg the value of _access_count it loaded, env_step the      *)
(* number of the set call it runs inside set_environment (0: outside).     *)
(***************************************************************************)

CfgThreads == 1..NumCfgThreads

EmptyDict == [k \in {} |-> 0]

\* _load_default_config: the default configuration
DefaultConfig ==
    [app |-> [name |-> "MyApplication", version |-> "1.0.0", debug |-> TRUE],
     database |-> [host |-> "localhost", port |-> 5432, name |-> "myapp_db",
                   pool_size |-> 10, timeout |-> 30],
     cache |-> [enabled |-> TRUE, ttl |-> 3600, max_size |-> 1000],
     logging |-> [level |-> "INFO", file_enabled |-> TRUE, console_enabled |-> TRUE],
     security |-> [jwt_expiry |-> 86400, password_min_length |-> 8, rate_limit |-> 100]]

\* What a watcher is called with is not kept; the callbacks registered are.
Callbacks == {"config_change_watcher"}

Environments == {"development", "staging", "production"}

\* set_environment: the set calls it makes for each environment, in order
EnvSettings(env) ==
    IF env = "production"
    THEN << <<(<<"app", "debug">>), FALSE>>, <<(<<"logging", "level">>), "WARN">>,
            <<(<<"database", "pool_size">>), 50>>, <<(<<"security", "rate_limit">>), 1000>> >>
    ELSE IF env = "staging"
    THEN << <<(<<"app", "debug">>), FALSE>>, <<(<<"logging", "level">>), "INFO">>,
            <<(<<"database", "pool_size">>), 20>> >>
    ELSE << <<(<<"app", "debug">>), TRUE>>, <<(<<"logging", "level">>), "DEBUG">>,
            <<(<<"database", "pool_size">>), 5>> >>

\* config_worker: the sections the workers write to, and one they share
WorkerSections == <<"worker_0", "worker_1", "worker_2", "worker_3">>
WorkerLeaves == <<"w0", "w1", "w2", "w3">>

\* The keys thread t writes: its own section's counter, and its own entry
\* of a section all workers share.
OwnKeys(t) == { <<WorkerSections[t], "counter">>, <<"shared", WorkerLeaves[t]>> }

\* The keys read: two that exist, one that does not, and the workers' own.
ReadKeys == { <<"app", "name">>, <<"non", "existent">> } \cup UNION {OwnKeys(t) : t \in CfgThreads}

RECURSIVE Lookup(_, _, _)
\* get: "for k in keys: value = value[k]", the default on a KeyError
Lookup(value, keys, default) ==
    IF keys = <<>> THEN value
    ELSE IF Head(keys) \in DOMAIN value
         THEN Lookup(value[Head(keys)], Tail(keys), default)
         ELSE default

RECURSIVE Navigate(_, _)
\* set: the dictionary once the loop over keys[:-1] has created what is missing
Navigate(cfg, keys) ==
    IF Len(keys) <= 1 THEN cfg
    ELSE LET sub == IF Head(keys) \in DOMAIN cfg THEN cfg[Head(keys)] ELSE EmptyDict
         IN (Head(keys) :> Navigate(sub, Tail(keys))) @@ cfg

RECURSIVE Assign(_, _, _)
\* set: "config[keys[-1]] = value" in the dictionary navigated to
Assign(cfg, keys, value) ==
    IF Len(keys) = 1 THEN (Head(keys) :> value) @@ cfg
    ELSE (Head(keys) :> Assign(cfg[Head(keys)], Tail(keys), value)) @@ cfg

\* (mutant) a lock that lets everybody in
LockFreeAlways(holder) == TRUE

\* threading.Lock.acquire returns only when nobody holds the lock
LockFree(holder) == holder = 0

\* (mutant) __init__ without its test of self._initialized under the lock
AlreadyInitializedNever(flag) == FALSE

\* __init__: "if self._initialized: return" (under the lock)
AlreadyInitialized(flag) == flag = "True"

SingInit ==
    /\ instance = None
    /\ instances = 0
    /\ initialized = "absent"
    /\ cfg_lock = 0
    /\ config_data = EmptyDict
    /\ environment = "unset"
    /\ access_count = 0
    /\ watchers = <<>>
    /\ loads = 0
    /\ get_calls = 0
    /\ written = EmptyDict
    /\ env_returned = "none"
    /\ spc = [t \in CfgThreads |-> "idle"]
    /\ ref = [t \in CfgThreads |-> None]
    /\ skey = [t \in CfgThreads |-> <<>>]
    /\ sval = [t \in CfgThreads |-> 0]
    /\ reg = [t \in CfgThreads |-> 0]
    /\ env_step = [t \in CfgThreads |-> 0]

\* Thread t calls ConfigurationManager() or ConfigurationManager.get_instance().
ConstructCall(t) ==
    /\ spc[t] = "idle"
    /\ spc' = [spc EXCEPT ![t] = "new_check"]
    /\ UNCHANGED <<notSingleton, singObject, cfg_lock, singGhost, ref, skey, sval, reg, env_step>>

\* __new__, line 27: "if cls._instance is None", read without the lock
NewCheck(t) ==
    /\ spc[t] = "new_check"
    /\ spc' = [spc EXCEPT ![t] = IF instance = None THEN "new_lock" ELSE "init_check"]
    /\ UNCHANGED <<notSingleton, singObject, cfg_lock, singGhost, ref, skey, sval, reg, env_step>>

\* __new__, lines 28-30: take the lock, test again, allocate and publish the
\* object in cls._instance.
NewLock(t) ==
    /\ spc[t] = "new_lock"
    /\ LockFree(cfg_lock)
    /\ IF instance = None
       THEN /\ instances' = instances + 1
            /\ instance' = instances + 1
            /\ initialized' = "absent"
            /\ cfg_lock' = t
            /\ spc' = [spc EXCEPT ![t] = "new_flag"]
       ELSE /\ spc' = [spc EXCEPT ![t] = "init_check"]
            /\ UNCHANGED <<instance, instances, initialized, cfg_lock>>
    /\ UNCHANGED <<notSingleton, config_data, environment, access_count, watchers, singGhost,
                   ref, skey, sval, reg, env_step>>

\* __new__, line 31: "cls._instance._initialized = False", then the lock is
\* released and the object returned.
NewFlag(t) ==
    /\ spc[t] = "new_flag"
    /\ initialized' = "False"
    /\ cfg_lock' = 0
    /\ spc' = [spc EXCEPT ![t] = "init_check"]
    /\ UNCHANGED <<notSingleton, instance, instances, config_data, environment, access_count,
                   watchers, singGhost, ref, skey, sval, reg, env_step>>

\* __init__, line 36: "if self._initialized: return", read without the lock.
\* The attribute may not exist yet: AttributeError.
InitCheck(t) ==
    /\ spc[t] = "init_check"
    /\ IF initialized = "absent"
       THEN spc' = [spc EXCEPT ![t] = "attribute_error"] /\ UNCHANGED ref
       ELSE IF initialized = "True"
       THEN spc' = [spc EXCEPT ![t] = "idle"] /\ ref' = [ref EXCEPT ![t] = instance]
       ELSE spc' = [spc EXCEPT ![t] = "init_lock"] /\ UNCHANGED ref
    /\ UNCHANGED <<notSingleton, singObject, cfg_lock, singGhost, skey, sval, reg, env_step>>

\* __init__, lines 39-56: under the lock, test again and initialize.
InitLock(t) ==
    /\ spc[t] = "init_lock"
    /\ LockFree(cfg_lock)
    /\ IF AlreadyInitialized(initialized)
       THEN UNCHANGED <<config_data, environment, access_count, watchers,
                        initialized, loads>>
       ELSE /\ config_data' = DefaultConfig
            /\ environment' = "development"
            /\ access_count' = 0
            /\ watchers' = <<>>
            /\ loads' = loads + 1
            /\ initialized' = "True"
    /\ spc' = [spc EXCEPT ![t] = "idle"]
    /\ ref' = [ref EXCEPT ![t] = instance]
    /\ UNCHANGED <<notSingleton, instance, instances, cfg_lock, get_calls, written, env_returned,
                   skey, sval, reg, env_step>>

\* The caller handles the AttributeError of its constructor call.
HandleAttributeError(t) ==
    /\ spc[t] = "attribute_error"
    /\ spc' = [spc EXCEPT ![t] = "idle"]
    /\ UNCHANGED <<notSingleton, singObject, cfg_lock, singGhost, ref, skey, sval, reg, env_step>>

\* Thread t calls get(key): it takes the lock and loads self._access_count.
GetLock(t, key) ==
    /\ spc[t] = "idle"
    /\ ref[t] # None
    /\ get_calls + Cardinality({u \in CfgThreads : spc[u] = "get_body"}) < MaxGets
    /\ LockFree(cfg_lock)
    /\ cfg_lock' = t
    /\ skey' = [skey EXCEPT ![t] = key]
    /\ reg' = [reg EXCEPT ![t] = access_count]
    /\ spc' = [spc EXCEPT ![t] = "get_body"]
    /\ UNCHANGED <<notSingleton, singObject, singGhost, ref, sval, env_step>>

\* get: store the incremented count, look the key up, release the lock.
GetBody(t) ==
    /\ spc[t] = "get_body"
    /\ access_count' = reg[t] + 1
    /\ sval' = [sval EXCEPT ![t] = Lookup(config_data, skey[t], None)]
    /\ get_calls' = get_calls + 1
    /\ cfg_lock' = 0
    /\ spc' = [spc EXCEPT ![t] = "idle"]
    /\ skey' = [skey EXCEPT ![t] = <<>>]
    /\ reg' = [reg EXCEPT ![t] = 0]
    /\ UNCHANGED <<notSingleton, instance, instances, initialized, config_data, environment,
                   watchers, loads, written, env_returned, ref, env_step>>

\* Thread t calls set(key, value) on a key of its own.
SetCall(t, key, value) ==
    /\ spc[t] = "idle"
    /\ ref[t] # None
    /\ spc' = [spc EXCEPT ![t] = "set_lock"]
    /\ skey' = [skey EXCEPT ![t] = key]
    /\ sval' = [sval EXCEPT ![t] = value]
    /\ UNCHANGED <<notSingleton, singObject, cfg_lock, singGhost, ref, reg, env_step>>

\* set, lines 119-127: take the lock and walk to the parent dictionary,
\* creating the dictionaries that are missing.
SetLock(t) ==
    /\ spc[t] = "set_lock"
    /\ LockFree(cfg_lock)
    /\ cfg_lock' = t
    /\ config_data' = Navigate(config_data, skey[t])
    /\ spc' = [spc EXCEPT ![t] = "set_body"]
    /\ UNCHANGED <<notSingleton, instance, instances, initialized, environment, access_count,
                   watchers, singGhost, ref, skey, sval, reg, env_step>>

\* set, lines 130-137: assign, notify the watchers, release the lock and
\* return: to the caller, or into set_environment, which goes on to its next
\* set call or, after the last one, leaves its own "with self._lock".
SetBody(t) ==
    /\ spc[t] = "set_body"
    /\ config_data' = Assign(Navigate(config_data, skey[t]), skey[t], sval[t])
    /\ written' = (skey[t] :> sval[t]) @@ written
    /\ cfg_lock' = 0
    /\ IF env_step[t] = 0
       THEN /\ spc' = [spc EXCEPT ![t] = "idle"]
            /\ skey' = [skey EXCEPT ![t] = <<>>]
            /\ sval' = [sval EXCEPT ![t] = 0]
            /\ UNCHANGED <<env_step, env_returned>>
       ELSE IF env_step[t] < Len(EnvSettings(environment))
       THEN /\ spc' = [spc EXCEPT ![t] = "set_lock"]
            /\ skey' = [skey EXCEPT ![t] = EnvSettings(environment)[env_step[t] + 1][1]]
            /\ sval' = [sval EXCEPT ![t] = EnvSettings(environment)[env_step[t] + 1][2]]
            /\ env_step' = [env_step EXCEPT ![t] = env_step[t] + 1]
            /\ UNCHANGED env_returned
       ELSE /\ spc' = [spc EXCEPT ![t] = "idle"]
            /\ skey' = [skey EXCEPT ![t] = <<>>]
            /\ sval' = [sval EXCEPT ![t] = 0]
            /\ env_step' = [env_step EXCEPT ![t] = 0]
            /\ env_returned' = environment
    /\ UNCHANGED <<notSingleton, instance, instances, initialized, environment, access_count,
                   watchers, loads, get_calls, ref, reg>>

\* Thread t calls add_watcher(callback).
AddWatcher(t, callback) ==
    /\ spc[t] = "idle"
    /\ ref[t] # None
    /\ Len(watchers) < MaxWatchers
    /\ LockFree(cfg_lock)
    /\ watchers' = Append(watchers, callback)
    /\ UNCHANGED <<notSingleton, instance, instances, initialized, config_data, environment,
                   access_count, cfg_lock, singGhost, singThreads>>

\* Thread t calls set_environment(env), lines 145-151: it takes the lock,
\* stores the environment and, the lock still held, calls self.set(..).
SetEnvironment(t, env) ==
    /\ spc[t] = "idle"
    /\ ref[t] # None
    /\ LockFree(cfg_lock)
    /\ cfg_lock' = t
    /\ environment' = env
    /\ spc' = [spc EXCEPT ![t] = "set_lock"]
    /\ skey' = [skey EXCEPT ![t] = EnvSettings(env)[1][1]]
    /\ sval' = [sval EXCEPT ![t] = EnvSettings(env)[1][2]]
    /\ env_step' = [env_step EXCEPT ![t] = 1]
    /\ UNCHANGED <<notSingleton, instance, instances, initialized, config_data, access_count,
                   watchers, singGhost, ref, reg>>

WorkerValues == 0..MaxValue

SingNext ==
    \/ \E t \in CfgThreads : ConstructCall(t)
    \/ \E t \in CfgThreads : NewCheck(t)
    \/ \E t \in CfgThreads : NewLock(t)
    \/ \E t \in CfgThreads : NewFlag(t)
    \/ \E t \in CfgThreads : InitCheck(t)
    \/ \E t \in CfgThreads : InitLock(t)
    \/ \E t \in CfgThreads : HandleAttributeError(t)
    \/ \E t \in CfgThreads, key \in ReadKeys : GetLock(t, key)
    \/ \E t \in CfgThreads : GetBody(t)
    \/ \E t \in CfgThreads : \E key \in OwnKeys(t), value \in WorkerValues : SetCall(t, key, value)
    \/ \E t \in CfgThreads : SetLock(t)
    \/ \E t \in CfgThreads : SetBody(t)
    \/ \E t \in CfgThreads, callback \in Callbacks : AddWatcher(t, callback)
    \/ \E t \in CfgThreads, env \in Environments : SetEnvironment(t, env)

(***************************************************************************)
(* Text editor with undo and redo (command/solution.py).                   *)
(*                                                                         *)
(* content is the editor's text, a sequence of characters, cursor_position *)
(* its cursor.  A command is a record of its class (type) and its          *)
(* attributes; undo_stack, redo_stack and command_queue are the            *)
(* CommandManager's lists.  before_stack[i] is the editor as it was when   *)
(* the manager executed undo_stack[i], calls the number of calls made to   *)
(* the manager, last_call the method called last, with the editor, the     *)
(* undo stack and the redo stack as they were when it was called.          *)
(***************************************************************************)
Max(a, b) == IF a >= b THEN a ELSE b

\* The position in a string of length n that a slice bound i stands for
SliceBound(n, i) == IF i < 0 THEN Max(n + i, 0) ELSE Min(i, n)

\* Python's s[i:j]
Slice(s, i, j) ==
    LET lo == SliceBound(Len(s), i)
        hi == SliceBound(Len(s), j)
    IN IF lo >= hi THEN <<>> ELSE SubSeq(s, lo + 1, hi)

\* s[:j] and s[i:]
SliceTo(s, j) == Slice(s, 0, j)
SliceFrom(s, i) == Slice(s, i, Len(s))

\* TextEditor(): an editor is its content and its cursor position
TextEditor == [content |-> <<>>, cursor |-> 0]

\* TextEditor.insert_text
insert_text(editor, text) ==
    [content |-> SliceTo(editor.content, editor.cursor) \o text
                    \o SliceFrom(editor.content, editor.cursor),
     cursor |-> editor.cursor + Len(text)]

\* TextEditor.delete_text
delete_text(editor, length) ==
    IF editor.cursor >= length
    THEN [content |-> SliceTo(editor.content, editor.cursor - length)
                         \o SliceFrom(editor.content, editor.cursor),
          cursor |-> editor.cursor - length]
    ELSE editor

\* TextEditor.move_cursor
move_cursor(editor, new_position) ==
    IF 0 <= new_position /\ new_position <= Len(editor.content)
    THEN [editor EXCEPT !.cursor = new_position]
    ELSE editor

\* A command object: its class and the attributes the classes have
Command(type, text, length, new_position, commands) ==
    [type |-> type, text |-> text, length |-> length, new_position |-> new_position,
     previous_position |-> 0, deleted_text |-> <<>>, commands |-> commands]

InsertTextCommand(text) == Command("insert", text, 0, 0, <<>>)
DeleteTextCommand(length) == Command("delete", <<>>, length, 0, <<>>)
MoveCursorCommand(new_position) == Command("move", <<>>, 0, new_position, <<>>)
MacroCommand(commands) == Command("macro", <<>>, 0, 0, commands)

RECURSIVE execute(_, _)
RECURSIVE execute_all(_, _)
\* command.execute(): the command and the editor afterwards
execute(command, editor) ==
    IF command.type = "insert"
    THEN [command |-> [command EXCEPT !.previous_position = editor.cursor],
          editor |-> insert_text(editor, command.text)]
    ELSE IF command.type = "delete"
    THEN IF editor.cursor >= command.length
         THEN [command |-> [command EXCEPT
                               !.previous_position = editor.cursor,
                               !.deleted_text = Slice(editor.content,
                                                      editor.cursor - command.length,
                                                      editor.cursor)],
               editor |-> delete_text(editor, command.length)]
         ELSE [command |-> [command EXCEPT !.previous_position = editor.cursor],
               editor |-> editor]
    ELSE IF command.type = "move"
    THEN [command |-> [command EXCEPT !.previous_position = editor.cursor],
          editor |-> move_cursor(editor, command.new_position)]
    ELSE LET done == execute_all(command.commands, editor)
         IN [command |-> [command EXCEPT !.commands = done.commands],
             editor |-> done.editor]

\* MacroCommand.execute: "for command in self._commands: command.execute()"
execute_all(commands, editor) ==
    IF commands = <<>> THEN [commands |-> <<>>, editor |-> editor]
    ELSE LET first == execute(Head(commands), editor)
             others == execute_all(Tail(commands), first.editor)
         IN [commands |-> <<first.command>> \o others.commands,
             editor |-> others.editor]

RECURSIVE undo(_, _)
RECURSIVE undo_all(_, _)
\* command.undo(): the editor afterwards
undo(command, editor) ==
    IF command.type = "insert"
    THEN move_cursor(
             delete_text(
                 move_cursor(editor, command.previous_position + Len(command.text)),
                 Len(command.text)),
             command.previous_position)
    ELSE IF command.type = "delete"
    THEN IF command.deleted_text # <<>>
         THEN move_cursor(
                  insert_text(
                      move_cursor(editor, command.previous_position - command.length),
                      command.deleted_text),
                  command.previous_position)
         ELSE editor
    ELSE IF command.type = "move"
    THEN move_cursor(editor, command.previous_position)
    ELSE undo_all(command.commands, editor)

\* MacroCommand.undo: "for command in reversed(self._commands): command.undo()"
undo_all(commands, editor) ==
    IF commands = <<>> THEN editor
    ELSE undo_all(SubSeq(commands, 1, Len(commands) - 1),
                  undo(commands[Len(commands)], editor))

\* The editor the commands act on
Editor == [content |-> content, cursor |-> cursor_position]

CmdInit ==
    /\ content = TextEditor.content
    /\ cursor_position = TextEditor.cursor
    /\ undo_stack = <<>>
    /\ redo_stack = <<>>
    /\ command_queue = <<>>
    /\ before_stack = <<>>
    /\ calls = 0
    /\ last_call = [name |-> "none", editor |-> TextEditor, undo_stack |-> <<>>,
                    redo_stack |-> <<>>]

\* One more call of a method of the CommandManager
Call(name) ==
    /\ calls < MaxCalls
    /\ calls' = calls + 1
    /\ last_call' = [name |-> name, editor |-> Editor, undo_stack |-> undo_stack,
                     redo_stack |-> redo_stack]

\* (mutant) execute_command without "self._redo_stack.clear()"
clear_forgotten(stack) == stack

\* list.clear(), as in "self._redo_stack.clear()"
clear(stack) == <<>>

\* CommandManager.execute_command(command)
ExecuteCommand(command) ==
    /\ Call("execute_command")
    /\ LET done == execute(command, Editor)
       IN /\ content' = done.editor.content
          /\ cursor_position' = done.editor.cursor
          /\ undo_stack' = Append(undo_stack, done.command)
          /\ before_stack' = Append(before_stack, Editor)
    /\ redo_stack' = clear(redo_stack)
    /\ UNCHANGED <<notCommand, command_queue>>

\* CommandManager.undo()
UndoCommand ==
    /\ Call("undo")
    /\ IF undo_stack # <<>>
       THEN LET command == undo_stack[Len(undo_stack)]
                editor == undo(command, Editor)
            IN /\ undo_stack' = SubSeq(undo_stack, 1, Len(undo_stack) - 1)
               /\ before_stack' = SubSeq(before_stack, 1, Len(before_stack) - 1)
               /\ content' = editor.content
               /\ cursor_position' = editor.cursor
               /\ redo_stack' = Append(redo_stack, command)
       ELSE UNCHANGED <<content, cursor_position, undo_stack, redo_stack, before_stack>>
    /\ UNCHANGED <<notCommand, command_queue>>

\* CommandManager.redo()
RedoCommand ==
    /\ Call("redo")
    /\ IF redo_stack # <<>>
       THEN LET done == execute(redo_stack[Len(redo_stack)], Editor)
            IN /\ redo_stack' = SubSeq(redo_stack, 1, Len(redo_stack) - 1)
               /\ content' = done.editor.content
               /\ cursor_position' = done.editor.cursor
               /\ undo_stack' = Append(undo_stack, done.command)
               /\ before_stack' = Append(before_stack, Editor)
       ELSE UNCHANGED <<content, cursor_position, undo_stack, redo_stack, before_stack>>
    /\ UNCHANGED <<notCommand, command_queue>>

\* CommandManager.queue_command(command)
QueueCommand(command) ==
    /\ Call("queue_command")
    /\ Len(command_queue) < MaxQueue
    /\ command_queue' = Append(command_queue, command)
    /\ UNCHANGED <<notCommand, content, cursor_position, undo_stack, redo_stack,
                   before_stack>>

RECURSIVE execute_queued(_, _, _, _)
\* execute_queued_commands: "while self._command_queue: .. self.execute_command(command)";
\* the editor, the undo stack and the editors before each command afterwards
execute_queued(queue, editor, stack, befores) ==
    IF queue = <<>> THEN [editor |-> editor, stack |-> stack, befores |-> befores]
    ELSE LET done == execute(Head(queue), editor)
         IN execute_queued(Tail(queue), done.editor, Append(stack, done.command),
                           Append(befores, editor))

\* CommandManager.execute_queued_commands()
ExecuteQueuedCommands ==
    /\ Call("execute_queued_commands")
    /\ LET done == execute_queued(command_queue, Editor, undo_stack, before_stack)
       IN /\ content' = done.editor.content
          /\ cursor_position' = done.editor.cursor
          /\ undo_stack' = done.stack
          /\ before_stack' = done.befores
    /\ redo_stack' = IF command_queue = <<>> THEN redo_stack ELSE clear(redo_stack)
    /\ command_queue' = <<>>
    /\ UNCHANGED notCommand

\* The texts inserted, the lengths deleted and the positions moved to
Texts == { <<"a">>, <<"b", "c">> }
Lengths == -1..MaxLength
Positions == -1..MaxPosition

InsertCommands == {InsertTextCommand(text) : text \in Texts}
SimpleCommands ==
    InsertCommands
        \cup {DeleteTextCommand(length) : length \in Lengths}
        \cup {MoveCursorCommand(new_position) : new_position \in Positions}

\* Macros as main builds them: a cursor movement or a deletion, then an insertion
MacroCommands ==
    {MacroCommand(<<first, InsertTextCommand(<<"a">>)>>) :
        first \in {MoveCursorCommand(0), DeleteTextCommand(1), DeleteTextCommand(-1)}}

Commands == SimpleCommands \cup MacroCommands

CmdNext ==
    \/ \E command \in Commands : ExecuteCommand(command)
    \/ UndoCommand
    \/ RedoCommand
    \/ \E command \in InsertCommands : QueueCommand(command)
    \/ ExecuteQueuedCommands

(***************************************************************************)
(* Text editor with mementos (memento/solution.py).                        *)
(*                                                                         *)
(* text_editor is the TextEditor (content, cursor_position and             *)
(* selection_text), history the EditorHistory (undo_stack and redo_stack,  *)
(* lists of mementos).  captured.saved are the mementos save_state took    *)
(* that are not undone, captured.undone those that are, both oldest first. *)
(* last_op is the method called last, with the editor and the history as   *)
(* they were when it was called; ops counts the calls.                     *)
(***************************************************************************)
\* TextEditor(): the memento demo's editor
MementoEditor == [content |-> <<>>, cursor_position |-> 0, selection_text |-> <<>>]

\* EditorHistory()
EditorHistory == [undo_stack |-> <<>>, redo_stack |-> <<>>]

\* TextEditor.write
write(editor, text) ==
    [content |-> SliceTo(editor.content, editor.cursor_position) \o text
                    \o SliceFrom(editor.content, editor.cursor_position),
     cursor_position |-> editor.cursor_position + Len(text),
     selection_text |-> <<>>]

\* TextEditor.delete
delete(editor, characters) ==
    LET start_pos == Max(0, editor.cursor_position - characters)
    IN [content |-> SliceTo(editor.content, start_pos)
                       \o SliceFrom(editor.content, editor.cursor_position),
        cursor_position |-> start_pos,
        selection_text |-> <<>>]

\* TextEditor.set_cursor_position
set_cursor_position(editor, position) ==
    [editor EXCEPT !.cursor_position = Max(0, Min(position, Len(editor.content)))]

\* TextEditor.select_text
select_text(editor, start_pos, end_pos) ==
    IF 0 <= start_pos /\ start_pos <= end_pos /\ end_pos <= Len(editor.content)
    THEN [editor EXCEPT !.selection_text = Slice(editor.content, start_pos, end_pos)]
    ELSE editor

\* TextEditor.create_memento: a memento holds the editor's three attributes
create_memento(editor) ==
    [content |-> editor.content, cursor_position |-> editor.cursor_position,
     selection_text |-> editor.selection_text]

\* TextEditor.restore_from_memento
restore_from_memento(editor, memento) ==
    [content |-> memento.content, cursor_position |-> memento.cursor_position,
     selection_text |-> memento.selection_text]

\* (mutant) save_state without "self._redo_stack.clear()"
save_state_keeping_redo(h, editor) ==
    [undo_stack |-> Append(h.undo_stack, create_memento(editor)),
     redo_stack |-> h.redo_stack]

\* EditorHistory.save_state
save_state(h, editor) ==
    [undo_stack |-> Append(h.undo_stack, create_memento(editor)),
     redo_stack |-> <<>>]

\* EditorHistory.can_undo and can_redo
can_undo(h) == h.undo_stack # <<>>
can_redo(h) == h.redo_stack # <<>>

\* list.pop(): the list without its last element
Popped(stack) == SubSeq(stack, 1, Len(stack) - 1)

MementoInit ==
    /\ text_editor = MementoEditor
    /\ history = EditorHistory
    /\ captured = [saved |-> <<>>, undone |-> <<>>]
    /\ last_op = [name |-> "none", editor |-> MementoEditor, history |-> EditorHistory]
    /\ ops = 0

\* One more call of a method of the editor or of the history
Op(name) ==
    /\ ops < MaxOps
    /\ ops' = ops + 1
    /\ last_op' = [name |-> name, editor |-> text_editor, history |-> history]

\* editor.write(text)
Write(text) ==
    /\ Op("write")
    /\ text_editor' = write(text_editor, text)
    /\ UNCHANGED <<notMemento, history, captured>>

\* editor.delete(characters)
Delete(characters) ==
    /\ Op("delete")
    /\ text_editor' = delete(text_editor, characters)
    /\ UNCHANGED <<notMemento, history, captured>>

\* editor.set_cursor_position(position)
SetCursorPosition(position) ==
    /\ Op("set_cursor_position")
    /\ text_editor' = set_cursor_position(text_editor, position)
    /\ UNCHANGED <<notMemento, history, captured>>

\* editor.select_text(start_pos, end_pos)
SelectText(start_pos, end_pos) ==
    /\ Op("select_text")
    /\ text_editor' = select_text(text_editor, start_pos, end_pos)
    /\ UNCHANGED <<notMemento, history, captured>>

\* history.save_state(editor)
SaveState ==
    /\ Op("save_state")
    /\ history' = save_state(history, text_editor)
    /\ captured' = [saved |-> Append(captured.saved, create_memento(text_editor)),
                    undone |-> <<>>]
    /\ UNCHANGED <<notMemento, text_editor>>

\* history.undo(editor)
HistoryUndo ==
    /\ Op("undo")
    /\ IF history.undo_stack # <<>>
       THEN /\ history' = [undo_stack |-> Popped(history.undo_stack),
                           redo_stack |-> Append(history.redo_stack,
                                                 create_memento(text_editor))]
            /\ text_editor' = restore_from_memento(
                                  text_editor, history.undo_stack[Len(history.undo_stack)])
            /\ captured' = [saved |-> Popped(captured.saved),
                            undone |-> Append(captured.undone,
                                              captured.saved[Len(captured.saved)])]
       ELSE UNCHANGED <<history, text_editor, captured>>
    /\ UNCHANGED notMemento

\* history.redo(editor)
HistoryRedo ==
    /\ Op("redo")
    /\ IF history.redo_stack # <<>>
       THEN /\ history' = [undo_stack |-> Append(history.undo_stack,
                                                 create_memento(text_editor)),
                           redo_stack |-> Popped(history.redo_stack)]
            /\ text_editor' = restore_from_memento(
                                  text_editor, history.redo_stack[Len(history.redo_stack)])
            /\ captured' = [saved |-> Append(captured.saved,
                                             captured.undone[Len(captured.undone)]),
                            undone |-> Popped(captured.undone)]
       ELSE UNCHANGED <<history, text_editor, captured>>
    /\ UNCHANGED notMemento

\* What the editor's methods are called with
Characters == -1..MaxCharacters
CursorPositions == -1..MaxCharacters
Selections == {pair \in (0..MaxSelect) \X (1..MaxSelect) : pair[1] <= pair[2]}

MementoNext ==
    \/ \E text \in Texts : Write(text)
    \/ \E characters \in Characters : Delete(characters)
    \/ \E position \in CursorPositions : SetCursorPosition(position)
    \/ \E pair \in Selections : SelectText(pair[1], pair[2])
    \/ SaveState
    \/ HistoryUndo
    \/ HistoryRedo

(***************************************************************************)
(* Air traffic control tower (mediator/solution.py).                       *)
(*                                                                         *)
(* status[a] is the status of aircraft a (its current_position is only     *)
(* printed: the tower works on the position it is passed); the queues,     *)
(* runway_occupied and current_runway_user (None: nobody) are the          *)
(* tower's.  sequences are the takeoff_sequence and landing_sequence       *)
(* threads started by grant_takeoff and grant_landing and not yet ended, a *)
(* bag (grants counts the threads started): pc is "sleeping" in            *)
(* time.sleep, "arrived" once the status is written, "releasing" once line *)
(* 332 has found the aircraft to be the runway user.  The requests come from the   *)
(* main thread; in_emergency is the aircraft whose emergency request the   *)
(* tower is handling, the tower's lock held (None: no such request).       *)
(* last_grant remembers the last grant for the properties: of what, on     *)
(* which occasion, whether it found aircraft waiting in the queues and     *)
(* whether it went to the head of the landing queue.                       *)
(***************************************************************************)
AllAircraft == 1..NumAircraft

\* notify_aircraft_position_update, lines 333-335: the positions that end a
\* runway operation
EndsRunwayOperation(position) ==
    position \in {"Gate", "Gate 1", "Airspace Sector 1", "Approaching Airspace"}

\* The position a takeoff_sequence / landing_sequence thread reports
SequencePosition(kind) == IF kind = "takeoff" THEN "Airspace Sector 1" ELSE "Gate 1"

\* deque.remove(aircraft): the queue without the first occurrence
RemoveFromQueue(queue, aircraft) ==
    IF aircraft \in Range(queue) THEN RemoveFirst(queue, aircraft) ELSE queue

\* AirTrafficControlTower._can_grant_takeoff
can_grant_takeoff(occupied, landings) == ~occupied /\ Len(landings) = 0

\* AirTrafficControlTower._can_grant_landing
can_grant_landing(occupied) == ~occupied

\* grant_takeoff / grant_landing: the status written and the thread started
GrantedStatus(kind) == IF kind = "takeoff" THEN "TAKING_OFF" ELSE "LANDING"
NewSequence(aircraft, kind) ==
    [aircraft |-> aircraft, kind |-> kind, pc |-> "sleeping"]

\* What last_grant remembers of a grant
Granted(aircraft, kind, occasion) ==
    [kind |-> kind, occasion |-> occasion,
     takeoff_waiting |-> takeoff_queue # <<>>,
     landing_waiting |-> landing_queue # <<>>,
     landing_first |-> landing_queue # <<>> /\ aircraft = Head(landing_queue)]

\* _grant_takeoff_immediately / _grant_landing_immediately, the other threads
\* being running
GrantImmediately(aircraft, kind, running, occasion) ==
    /\ grants < MaxGrants
    /\ last_grant' = Granted(aircraft, kind, occasion)
    /\ runway_occupied' = TRUE
    /\ current_runway_user' = aircraft
    /\ status' = [status EXCEPT ![aircraft] = GrantedStatus(kind)]
    /\ sequences' = running (+) SetToBag({NewSequence(aircraft, kind)})
    /\ grants' = grants + 1

\* The threads without one that moves on or ends
Ended(thread) == sequences (-) SetToBag({thread})

MediatorInit ==
    /\ status = [a \in AllAircraft |-> "PARKED"]
    /\ takeoff_queue = <<>>
    /\ landing_queue = <<>>
    /\ runway_occupied = FALSE
    /\ current_runway_user = None
    /\ sequences = EmptyBag
    /\ grants = 0
    /\ in_emergency = None
    /\ last_grant = [kind |-> "none", occasion |-> "none", takeoff_waiting |-> FALSE,
                     landing_waiting |-> FALSE, landing_first |-> FALSE]

\* aircraft.request_takeoff(), the tower's request_takeoff included
RequestTakeoff(aircraft) ==
    /\ in_emergency = None
    /\ IF status[aircraft] \in {"PARKED", "TAXIING"}
       THEN IF can_grant_takeoff(runway_occupied, landing_queue)
            THEN /\ GrantImmediately(aircraft, "takeoff", sequences, "request")
                 /\ UNCHANGED <<takeoff_queue, landing_queue>>
            ELSE /\ status' = [status EXCEPT ![aircraft] = "TAKEOFF_REQUESTED"]
                 /\ takeoff_queue' = Append(takeoff_queue, aircraft)
                 /\ UNCHANGED <<landing_queue, runway_occupied, current_runway_user,
                                sequences, grants, last_grant>>
       ELSE UNCHANGED <<status, towerVars, sequences, grants, last_grant>>
    /\ UNCHANGED <<notMediator, in_emergency>>

\* aircraft.request_landing(), the tower's request_landing included
RequestLanding(aircraft) ==
    /\ in_emergency = None
    /\ IF status[aircraft] = "IN_FLIGHT"
       THEN IF can_grant_landing(runway_occupied)
            THEN /\ GrantImmediately(aircraft, "landing", sequences, "request")
                 /\ UNCHANGED <<takeoff_queue, landing_queue>>
            ELSE /\ status' = [status EXCEPT ![aircraft] = "LANDING_REQUESTED"]
                 /\ landing_queue' = Append(landing_queue, aircraft)
                 /\ UNCHANGED <<takeoff_queue, runway_occupied, current_runway_user,
                                sequences, grants, last_grant>>
       ELSE UNCHANGED <<status, towerVars, sequences, grants, last_grant>>
    /\ UNCHANGED <<notMediator, in_emergency>>

\* aircraft.declare_emergency() up to line 323 of request_emergency_landing:
\* the status is EMERGENCY, the tower takes its lock, removes the aircraft from
\* the queues and calls aircraft.grant_landing().
DeclareEmergency(aircraft) ==
    /\ in_emergency = None
    /\ grants < MaxGrants
    /\ takeoff_queue' = RemoveFromQueue(takeoff_queue, aircraft)
    /\ landing_queue' = RemoveFromQueue(landing_queue, aircraft)
    /\ status' = [status EXCEPT ![aircraft] = GrantedStatus("landing")]
    /\ sequences' = sequences (+) SetToBag({NewSequence(aircraft, "landing")})
    /\ grants' = grants + 1
    /\ last_grant' = Granted(aircraft, "landing", "emergency")
    /\ in_emergency' = aircraft
    /\ UNCHANGED <<notMediator, runway_occupied, current_runway_user>>

\* request_emergency_landing, lines 325-326, and the return of declare_emergency
EmergencyApproved ==
    /\ in_emergency # None
    /\ runway_occupied' = TRUE
    /\ current_runway_user' = in_emergency
    /\ in_emergency' = None
    /\ UNCHANGED <<notMediator, status, takeoff_queue, landing_queue,
                   sequences, grants, last_grant>>

\* (mutant) the takeoff queue served before the landing queue
ProcessTakeoffsFirst(running) ==
    IF takeoff_queue # <<>>
    THEN /\ GrantImmediately(Head(takeoff_queue), "takeoff", running, "release")
         /\ takeoff_queue' = Tail(takeoff_queue)
         /\ UNCHANGED landing_queue
    ELSE IF landing_queue # <<>>
    THEN /\ GrantImmediately(Head(landing_queue), "landing", running, "release")
         /\ landing_queue' = Tail(landing_queue)
         /\ UNCHANGED takeoff_queue
    ELSE /\ runway_occupied' = FALSE
         /\ current_runway_user' = None
         /\ sequences' = running
         /\ UNCHANGED <<status, takeoff_queue, landing_queue, grants, last_grant>>

\* _process_next_operation by the thread that released the runway, the other
\* threads being running
ProcessNextOperation(running) ==
    IF landing_queue # <<>>
    THEN /\ GrantImmediately(Head(landing_queue), "landing", running, "release")
         /\ landing_queue' = Tail(landing_queue)
         /\ UNCHANGED takeoff_queue
    ELSE IF takeoff_queue # <<>>
    THEN /\ GrantImmediately(Head(takeoff_queue), "takeoff", running, "release")
         /\ takeoff_queue' = Tail(takeoff_queue)
         /\ UNCHANGED landing_queue
    ELSE /\ runway_occupied' = FALSE
         /\ current_runway_user' = None
         /\ sequences' = running
         /\ UNCHANGED <<status, takeoff_queue, landing_queue, grants, last_grant>>

\* main sets aircraft.status = AircraftStatus.IN_FLIGHT for a parked aircraft
SetInFlight(aircraft) ==
    /\ in_emergency = None
    /\ status[aircraft] = "PARKED"
    /\ status' = [status EXCEPT ![aircraft] = "IN_FLIGHT"]
    /\ UNCHANGED <<notMediator, towerVars, sequences, grants, in_emergency, last_grant>>

\* main calls aircraft.update_position(position); the tower's
\* notify_aircraft_position_update included
UpdatePosition(aircraft, position) ==
    /\ in_emergency = None
    /\ IF current_runway_user = aircraft /\ EndsRunwayOperation(position)
       THEN ProcessNextOperation(sequences)
       ELSE UNCHANGED <<status, towerVars, sequences, grants, last_grant>>
    /\ UNCHANGED <<notMediator, in_emergency>>

\* takeoff_sequence / landing_sequence after time.sleep: the status is written
SequenceArrives(thread) ==
    /\ BagIn(thread, sequences)
    /\ thread.pc = "sleeping"
    /\ status' = [status EXCEPT ![thread.aircraft] =
                     IF thread.kind = "takeoff" THEN "IN_FLIGHT" ELSE "PARKED"]
    /\ sequences' = Ended(thread) (+) SetToBag({[thread EXCEPT !.pc = "arrived"]})
    /\ UNCHANGED <<notMediator, towerVars, grants, in_emergency, last_grant>>

\* The thread's self.update_position(..) up to line 335: the position is
\* written, the tower reads _current_runway_user without its lock.
SequenceReports(thread) ==
    /\ BagIn(thread, sequences)
    /\ thread.pc = "arrived"
    /\ EndsRunwayOperation(SequencePosition(thread.kind))
    /\ sequences' = IF current_runway_user = thread.aircraft
                    THEN Ended(thread) (+) SetToBag({[thread EXCEPT !.pc = "releasing"]})
                    ELSE Ended(thread)
    /\ UNCHANGED <<notMediator, status, towerVars, grants, in_emergency, last_grant>>

\* notify_aircraft_position_update, lines 337-340: with the lock, the runway
\* is released and the next operation processed; the thread ends.
SequenceReleases(thread) ==
    /\ BagIn(thread, sequences)
    /\ thread.pc = "releasing"
    /\ in_emergency = None
    /\ ProcessNextOperation(Ended(thread))
    /\ UNCHANGED <<notMediator, in_emergency>>

\* The threads a run can hold
Sequences ==
    [aircraft : AllAircraft, kind : {"takeoff", "landing"},
     pc : {"sleeping", "arrived", "releasing"}]

MediatorNext ==
    \/ \E aircraft \in AllAircraft : RequestTakeoff(aircraft)
    \/ \E aircraft \in AllAircraft : RequestLanding(aircraft)
    \/ \E aircraft \in AllAircraft : DeclareEmergency(aircraft)
    \/ EmergencyApproved
    \/ \E aircraft \in AllAircraft : SetInFlight(aircraft)
    \/ \E aircraft \in AllAircraft :
          \E position \in {"Approaching Airspace", "10 miles out"} :
             UpdatePosition(aircraft, position)
    \/ \E thread \in Sequences : SequenceArrives(thread)
    \/ \E thread \in Sequences : SequenceReports(thread)
    \/ \E thread \in Sequences : SequenceReleases(thread)

(***************************************************************************)
(* HTTP request builder (builder/solution.py).                             *)
(*                                                                         *)
(* builder is the HttpRequestBuilder of the run (NoBuilder before the      *)
(* first is constructed), outcome what the last call on it did: nothing    *)
(* yet, an exception raised or the HttpRequest built.  A string is the     *)
(* sequence of its characters; headers and cookies are dicts, sequences of *)
(* <<key, value>> in insertion order.                                      *)
(***************************************************************************)
Http == <<"h", "t", "t", "p", ":", "/", "/">>
Https == <<"h", "t", "t", "p", "s", ":", "/", "/">>

\* The URLs a builder is constructed with
Urls ==
    { <<>>,
      <<"n", "o", "t", "-", "a", "-", "u", "r", "l">>,
      Http, Https, Http \o <<"a">>, Https \o <<"a">>,
      <<"h", "t", "t", "p">>, <<"h", "t", "t", "p", ":", "/">>, <<"h", "t", "t", "p", "s", ":", "/">>,
      <<"h", "t", "t", "p", "s", "/", "/", "a">>,
      <<"H", "T", "T", "P", ":", "/", "/", "a">>,
      <<" ">> \o Http \o <<"a">>,
      <<"f", "t", "p", ":", "/", "/", "a">>,
      <<"a">> \o Https }

HttpMethod == {"GET", "POST", "PUT", "DELETE", "PATCH"}

\* (mutant) every string taken to start with one of the prefixes
startswith_anything(string, prefixes) == TRUE

\* str.startswith(prefixes), prefixes a tuple of strings
startswith(string, prefixes) ==
    \E i \in DOMAIN prefixes :
       /\ Len(string) >= Len(prefixes[i])
       /\ SubSeq(string, 1, Len(prefixes[i])) = prefixes[i]

\* dict[key] = value: the key keeps its place, a new key goes last
Put(dict, key, value) ==
    IF \E i \in DOMAIN dict : dict[i][1] = key
    THEN [i \in DOMAIN dict |-> IF dict[i][1] = key THEN <<key, value>> ELSE dict[i]]
    ELSE Append(dict, <<key, value>>)

\* '; '.join([f"{k}={v}" for k, v in cookies.items()])
RECURSIVE cookie_string(_)
cookie_string(cookies) ==
    IF cookies = <<>> THEN <<>>
    ELSE IF Len(cookies) = 1 THEN <<cookies[1][1], "=", cookies[1][2]>>
    ELSE <<cookies[1][1], "=", cookies[1][2], ";", " ">> \o cookie_string(Tail(cookies))

NoBuilder == [url |-> <<>>, method |-> "none", headers |-> <<>>, body |-> None,
              cookies |-> <<>>, timeout |-> 0]

\* HttpRequestBuilder.__init__
HttpRequestBuilder(url, method) ==
    [url |-> url, method |-> method, headers |-> <<>>, body |-> None,
     cookies |-> <<>>, timeout |-> 30]

NoOutcome == [kind |-> "none", message |-> "", request |-> NoBuilder]
Raised(kind, message) == [kind |-> kind, message |-> message, request |-> NoBuilder]

\* HttpRequest.__init__: the request copies the builder's fields
HttpRequest(b) ==
    [kind |-> "HttpRequest", message |-> "",
     request |-> [url |-> b.url, method |-> b.method, headers |-> b.headers,
                  body |-> b.body, cookies |-> b.cookies, timeout |-> b.timeout]]

\* build(): the builder it leaves, the Cookie header added
built(b) ==
    IF b.cookies # <<>>
    THEN [b EXCEPT !.headers = Put(b.headers, "Cookie", cookie_string(b.cookies))]
    ELSE b

\* build(): what it raises or returns
build(b) ==
    IF b.url = <<>> THEN Raised("ValueError", "URL is required")
    ELSE IF ~startswith(b.url, <<Http, Https>>)
    THEN Raised("ValueError", "URL must start with http:// or https://")
    ELSE HttpRequest(built(b))

BuilderInit ==
    /\ builder = NoBuilder
    /\ outcome = NoOutcome

\* HttpRequestBuilder(url, method)
NewBuilder(url, method) ==
    /\ builder' = HttpRequestBuilder(url, method)
    /\ outcome' = NoOutcome
    /\ UNCHANGED notBuilder

\* builder.header(name, value)
Header(name, value) ==
    /\ builder # NoBuilder
    /\ builder' = [builder EXCEPT !.headers = Put(builder.headers, name, value)]
    /\ UNCHANGED <<notBuilder, outcome>>

\* builder.raw_body(body)
RawBody(body) ==
    /\ builder # NoBuilder
    /\ builder' = [builder EXCEPT !.body = body]
    /\ UNCHANGED <<notBuilder, outcome>>

\* builder.cookie(name, value)
Cookie(name, value) ==
    /\ builder # NoBuilder
    /\ builder' = [builder EXCEPT !.cookies = Put(builder.cookies, name, value)]
    /\ UNCHANGED <<notBuilder, outcome>>

\* builder.timeout(seconds): the attribute timeout set by __init__ hides the
\* method, the call is a call of the int 30
Timeout(seconds) ==
    /\ builder # NoBuilder
    /\ outcome' = Raised("TypeError", "'int' object is not callable")
    /\ UNCHANGED <<notBuilder, builder>>

\* builder.build()
Build ==
    /\ builder # NoBuilder
    /\ outcome' = build(builder)
    /\ builder' = IF outcome'.kind = "HttpRequest" THEN built(builder) ELSE builder
    /\ UNCHANGED notBuilder

BuilderNext ==
    \/ \E url \in Urls : \E method \in HttpMethod : NewBuilder(url, method)
    \/ \E value \in {"MyApp/1.0", "Mozilla/5.0"} : Header("User-Agent", value)
    \/ \E body \in {1} : RawBody(body)
    \/ \E name \in {"session_id", "theme"} : Cookie(name, "xyz789")
    \/ \E seconds \in {10} : Timeout(seconds)
    \/ Build

(***************************************************************************)
(* The specifications: one per demo, the other demos' state left alone.    *)
(***************************************************************************)
\* The demos before any of them has run
InitAll == PoolInit(0, 1) /\ SingInit /\ CmdInit /\ MementoInit /\ MediatorInit /\ BuilderInit

\* A pool of any admissible size (min_size <= max_size), the other demos idle
InitPool ==
    /\ \E mx \in 1..MaxPoolSize : \E mn \in 0..mx : PoolInit(mn, mx)
    /\ SingInit
    /\ CmdInit
    /\ MementoInit
    /\ MediatorInit
    /\ BuilderInit

SpecPool == InitPool /\ [][PoolNext]_vars

SpecSingleton == InitAll /\ [][SingNext]_vars

SpecCommand == InitAll /\ [][CmdNext]_vars

SpecMemento == InitAll /\ [][MementoNext]_vars

SpecMediator == InitAll /\ [][MediatorNext]_vars

SpecBuilder == InitAll /\ [][BuilderNext]_vars

(***************************************************************************)
(* Properties of the ObjectPool (checked under SpecPool).                  *)
(***************************************************************************)

\* The pool is exhausted: nothing is available and nothing may be created.
Exhausted == available = <<>> /\ Cardinality(in_use) = max_size

\* Thread t's next pass through acquire's loop ends with acquire returning.
AcquireReturns(t) == AcquireLoop(t) /\ ppc'[t] = "holding"

\* C1: the pooled objects (available queue + in-use set) never number more
\* than max_size, under every interleaving of acquire, release and the cleanup
\* thread; while max_size objects are in use, no acquire can return an object.
C1_NeverOverMaxSize ==
    /\ Len(available) + Cardinality(in_use) <= max_size
    /\ Cardinality(in_use) = max_size => \A t \in Threads : ~ ENABLED AcquireReturns(t)

\* max_size objects are in use, a thread is blocked in acquire, and the
\* cleanup thread has made at least one full pass.
C1_Witness ==
    /\ Cardinality(in_use) = max_size
    /\ min_size > 0
    /\ \E t \in Threads : ppc[t] = "waiting"
    /\ \E t \in Threads : ppc[t] = "woken"

\* C2: acquire(timeout) raises TimeoutError only when the timeout has elapsed
\* with max_size objects in use, and it does raise then; the failing pass
\* returns no object and leaves the available queue, the in-use set and the
\* created / acquired counters as they were.
C2_TimeoutOnExhaustion ==
    [][\A t \in Threads :
          /\ (ppc[t] \in {"enter", "woken"} /\ ppc'[t] = "timed_out") =>
                /\ budget[t] # NoTimeout /\ budget[t] <= 0
                /\ Cardinality(in_use) = max_size
                /\ held'[t] = None
                /\ UNCHANGED <<available, in_use, total_created, total_acquired>>
          /\ (ppc[t] \in {"enter", "woken"} /\ ppc'[t] # ppc[t]
                /\ budget[t] # NoTimeout /\ budget[t] <= 0 /\ Exhausted) =>
                ppc'[t] = "timed_out"]_vars

\* An acquire that waited on the exhausted pool has raised TimeoutError.
C2_Witness ==
    \E t \in Threads : ppc[t] = "timed_out" /\ waited[t] /\ Exhausted

\* C3 (as the spec has it): a thread whose wait returned while the pool is
\* still exhausted can go on to return an object from acquire.
C3_WakeupReturnsAnyway ==
    \A t \in Threads : (ppc[t] = "woken" /\ Exhausted) => ENABLED AcquireReturns(t)

\* C3 (amended): the loop is safe against wakeups that nothing justifies.  A
\* thread whose wait returned (notified, timed out or spuriously) re-tests the
\* pool: it returns only a valid object taken from the available queue or one
\* created while fewer than max_size exist, and if the pool is still
\* exhausted it returns nothing: it waits again or raises TimeoutError.
C3_WakeupRechecks ==
    [][\A t \in Threads :
          /\ (ppc[t] = "woken" /\ ppc'[t] = "holding") =>
                \/ /\ held'[t] \in Range(available) \cap valid
                   /\ held'[t] \notin Range(available')
                \/ /\ Range(available) \cap valid = {}
                   /\ Len(available') + Cardinality(in_use) < max_size
                   /\ held'[t] \notin Range(available) \cup in_use
          /\ (ppc[t] = "woken" /\ Exhausted /\ ppc'[t] # "woken") =>
                /\ ppc'[t] \in {"waiting", "timed_out"}
                /\ held'[t] = None
                /\ UNCHANGED <<available, in_use, total_created>>]_vars

\* A thread that had to wait holds an object, obtained after objects were
\* released and acquired again.
C3_Witness ==
    \E t \in Threads : ppc[t] = "holding" /\ waited[t] /\ total_acquired > max_size

\* Thread w is inside acquire(timeout=None), has waited and holds nothing.
Starving(w) ==
    /\ ppc[w] \in {"waiting", "woken"}
    /\ budget[w] = NoTimeout
    /\ waited[w]
    /\ held[w] = None

\* The pool is exhausted, w starves and t holds a valid object.
Starved(w, t) ==
    /\ Starving(w)
    /\ Exhausted
    /\ ppc[t] = "holding" /\ held[t] \in in_use \cap valid

\* t has returned its object, which w has not taken (yet).
Returned(w, t, tpc) ==
    /\ Starving(w)
    /\ Len(available) = 1 /\ Head(available) \in valid
    /\ Cardinality(in_use) = max_size - 1
    /\ ppc[t] = tpc

\* C4: waiting acquirers get no fairness.  From every state in which the pool
\* is exhausted and w is blocked in acquire(timeout=None), w can wake up, find
\* the pool exhausted and wait again; and the holder t can release its object,
\* call acquire again and take the object back before w runs, which leaves the
\* pool exhausted and w blocked as before.  The two rounds can alternate for
\* ever (in the model: as long as the bound on acquires allows): objects are
\* released and re-acquired, every thread takes steps, w never gets an object.
C4_NoFairness ==
    \A w \in Threads : \A t \in Threads \ {w} :
       /\ (Starved(w, t) /\ ppc[w] = "waiting") =>
             ENABLED ((SpuriousWakeup(w) \/ WaitTimeout(w)) /\ Starved(w, t)' /\ ppc'[w] = "woken")
       /\ (Starved(w, t) /\ ppc[w] = "woken") =>
             ENABLED (AcquireLoop(w) /\ Starved(w, t)' /\ ppc'[w] = "waiting")
       /\ Starved(w, t) =>
             ENABLED (Release(t) /\ Returned(w, t, "idle")')
       /\ Returned(w, t, "idle") =>
             ENABLED (AcquireCall(t, NoTimeout) /\ Returned(w, t, "enter")')
       /\ (Returned(w, t, "enter") /\ total_acquired < MaxAcquired) =>
             ENABLED (AcquireLoop(t) /\ Starved(w, t)')

\* Two threads are blocked in acquire(timeout=None) on an exhausted pool whose
\* object has already been released and taken again by a third thread.
C4_Witness ==
    \E w \in Threads : \E v \in Threads \ {w} : \E t \in Threads \ {w, v} :
       /\ Starved(w, t) /\ Starving(v)
       /\ total_acquired > max_size

(***************************************************************************)
(* Properties of the ConfigurationManager                                   *)
(***************************************************************************)
\* A thread is inside the constructor call (in __new__ or in __init__).
Constructing(t) == spc[t] \in {"new_check", "new_lock", "new_flag", "init_check", "init_lock"}

\* C5: ConfigurationManager() and get_instance() always return the same single
\* object: at most one instance is ever allocated, and every constructor call,
\* under any interleaving of concurrent first calls, returns it (no call ends
\* in an exception, and every reference returned is the instance).
C5_SameSingleObject ==
    /\ instances <= 1
    /\ \A t \in CfgThreads :
          /\ spc[t] # "attribute_error"
          /\ ref[t] # None => ref[t] = instance

\* C6: the singleton is initialized only once: the default configuration is
\* loaded at most once and never again once it is loaded, a constructor call
\* that returns the object returns it loaded, and a step of a constructor call
\* made after the initialization leaves the configuration data, the watchers,
\* the environment and the access count as they are.
C6_InitializedOnce ==
    [][/\ loads' <= 1
       /\ loads = 1 => loads' = 1
       /\ \A t \in CfgThreads :
             /\ (ref'[t] # ref[t]) => (loads' = 1 /\ initialized' = "True")
             /\ (loads = 1 /\ (Constructing(t) \/ Constructing(t)') /\ spc'[t] # spc[t])
                   => UNCHANGED <<config_data, watchers, environment, access_count>>]_vars

\* A thread that found the object not yet initialized is about to take the
\* lock in __init__, while another thread has initialized the object, stored a
\* value with set() and registered a watcher.
C6_Witness ==
    /\ \E t \in CfgThreads : spc[t] = "init_lock"
    /\ loads = 1
    /\ watchers # <<>>
    /\ DOMAIN written # {}

\* C7: set_environment(env) returns: a thread inside it never waits for a lock
\* that it holds itself; and once it has returned, get_environment() returns
\* env and every setting of env is in force.
C7_SetEnvironmentReturns ==
    /\ \A t \in CfgThreads : (env_step[t] > 0 /\ spc[t] = "set_lock") => cfg_lock # t
    /\ env_returned # "none" =>
          /\ environment = env_returned
          /\ \A i \in DOMAIN EnvSettings(env_returned) :
                Lookup(config_data, EnvSettings(env_returned)[i][1], None)
                    = EnvSettings(env_returned)[i][2]

\* The value get(key, Missing) returns for a key that is not there
Missing == -1

\* C8: get and set are atomic with respect to each other: no two threads are
\* inside the bodies of get or set at once, every key written with set holds
\* the last value written to it (so no key written by another thread has
\* disappeared), and access_count equals the number of get calls performed.
C8_GetSetAtomic ==
    /\ Cardinality({t \in CfgThreads : spc[t] \in {"get_body", "set_body"}}) <= 1
    /\ access_count = get_calls
    /\ \A t \in CfgThreads : \A k \in OwnKeys(t) :
          k \in DOMAIN written => Lookup(config_data, k, Missing) = written[k]

\* One thread is inside get while another waits for the lock in set, after
\* a get has returned and every thread has written its key of the shared
\* section.
C8_Witness ==
    /\ \E t, u \in CfgThreads : spc[t] = "get_body" /\ spc[u] = "set_lock"
    /\ get_calls >= 1
    /\ \A v \in CfgThreads : <<"shared", WorkerLeaves[v]>> \in DOMAIN written

(***************************************************************************)
(* Properties of the text editor's commands                                *)
(***************************************************************************)
\* The step is a CommandManager.undo() that undoes a command.
UndoStep == undo_stack # <<>> /\ Len(undo_stack') = Len(undo_stack) - 1

\* The command CommandManager.undo() undoes, and the editor before its execute
LastCommand == undo_stack[Len(undo_stack)]
BeforeLast == before_stack[Len(before_stack)]

\* C9: undo after insert restores the prior content: when the manager has
\* executed an InsertTextCommand, whatever the content and the cursor position
\* were, and undo() is called next (the editor is as the insertion left it),
\* content and cursor position are again what they were before the execute.
C9_UndoAfterInsert ==
    [][(/\ UndoStep
        /\ LastCommand.type = "insert"
        /\ Editor = insert_text(BeforeLast, LastCommand.text))
           => (content' = BeforeLast.content /\ cursor_position' = BeforeLast.cursor)]_vars

\* C10: every command is reversible: whatever commands were executed, with
\* whatever lengths and positions, each CommandManager.undo() restores the
\* content and the cursor position the editor had before the matching execute.
C10_EveryCommandReversible ==
    [][UndoStep
           => (content' = BeforeLast.content /\ cursor_position' = BeforeLast.cursor)]_vars

\* C11: undo followed by redo is a round trip: when redo() is called right
\* after an undo() that undid a command, content, cursor position and undo
\* stack are again what they were before that undo; undo() on an empty undo
\* stack and redo() on an empty redo stack change nothing.
C11_UndoRedoRoundTrip ==
    [][/\ (last_call.name = "undo" /\ last_call.undo_stack # <<>>
              /\ last_call'.name = "redo")
          => /\ content' = last_call.editor.content
             /\ cursor_position' = last_call.editor.cursor
             /\ undo_stack' = last_call.undo_stack
       /\ (last_call'.name = "undo" /\ undo_stack = <<>>)
          => UNCHANGED <<content, cursor_position, undo_stack, redo_stack>>
       /\ (last_call'.name = "redo" /\ redo_stack = <<>>)
          => UNCHANGED <<content, cursor_position, undo_stack, redo_stack>>]_vars

\* C12: executing a new command clears the redo stack: execute_command, called
\* directly or by execute_queued_commands for a queued command, leaves the redo
\* stack empty whatever undo calls went before, and a redo() called next does
\* nothing: content, cursor position, undo stack and redo stack stay as they are.
C12_ExecuteClearsRedo ==
    [][/\ last_call'.name = "execute_command" => redo_stack' = <<>>
       /\ (last_call'.name = "execute_queued_commands" /\ command_queue # <<>>)
          => redo_stack' = <<>>
       /\ (/\ last_call'.name = "redo"
           /\ \/ last_call.name = "execute_command"
              \/ /\ last_call.name = "execute_queued_commands"
                 /\ undo_stack # last_call.undo_stack)
          => UNCHANGED <<content, cursor_position, undo_stack, redo_stack>>]_vars

\* A command has just been executed while undone commands were waiting on the
\* redo stack, and the redo stack is empty.
C12_Witness ==
    /\ last_call.name = "execute_command"
    /\ last_call.redo_stack # <<>>
    /\ undo_stack # <<>>
    /\ redo_stack = <<>>

(***************************************************************************)
(* Properties of the memento text editor                                   *)
(***************************************************************************)
\* The memento taken by the most recent save_state that is not undone
LastSaved == captured.saved[Len(captured.saved)]

\* C13: EditorHistory.undo restores the editor to exactly the content, cursor
\* position and selection captured by the most recent save_state that has not
\* been undone; a redo that follows restores the state the editor had
\* immediately before that undo; undo with no saved state and redo with an
\* empty redo stack leave the editor and both stacks unchanged.
C13_UndoRestoresSaved ==
    [][/\ (last_op'.name = "undo" /\ can_undo(history))
          => text_editor' = restore_from_memento(text_editor, LastSaved)
       /\ (last_op.name = "undo" /\ can_undo(last_op.history) /\ last_op'.name = "redo")
          => text_editor' = last_op.editor
       /\ (last_op'.name = "undo" /\ ~can_undo(history))
          => UNCHANGED <<text_editor, history>>
       /\ (last_op'.name = "redo" /\ ~can_redo(history))
          => UNCHANGED <<text_editor, history>>]_vars

\* C14: save_state clears the redo stack: after any sequence of save_state,
\* undo and redo calls (and of editor operations), a save_state makes
\* can_redo() return False, a redo called while can_redo() is False changes
\* neither the editor nor the stacks, and can_redo() stays False until the
\* next undo.
C14_SaveStateClearsRedo ==
    [][/\ last_op'.name = "save_state" => ~can_redo(history')
       /\ (last_op'.name = "redo" /\ ~can_redo(history))
          => UNCHANGED <<text_editor, history>>
       /\ (~can_redo(history) /\ last_op'.name # "undo") => ~can_redo(history')]_vars

\* save_state has just been called while undone states were waiting on the
\* redo stack, and can_redo() is False.
C14_Witness ==
    /\ last_op.name = "save_state"
    /\ can_redo(last_op.history)
    /\ can_undo(history)
    /\ ~can_redo(history)

\* C15: a new operation clears the redo stack: after one or more undo calls
\* (can_redo() is True), a write on the editor makes can_redo() return False.
C15_WriteClearsRedo ==
    [][(last_op'.name = "write" /\ can_redo(history)) => ~can_redo(history')]_vars


(***************************************************************************)
(* Properties of the air traffic control tower, checked under SpecMediator *)
(***************************************************************************)
\* C16: landings go before takeoffs: a takeoff is granted, at once or from the
\* queue, only when no aircraft waits in the landing queue, and the grant made
\* when the runway is released with both queues non-empty goes to the head of
\* the landing queue, which leaves the queue and becomes the runway's user.
C16_LandingPriority ==
    /\ last_grant.kind = "takeoff" => ~last_grant.landing_waiting
    /\ (/\ last_grant.occasion = "release"
        /\ last_grant.landing_waiting
        /\ last_grant.takeoff_waiting)
       => /\ last_grant.kind = "landing"
          /\ last_grant.landing_first

\* The runway was released with both queues non-empty and the landing granted
C16_Witness ==
    /\ last_grant.occasion = "release"
    /\ last_grant.landing_waiting
    /\ last_grant.takeoff_waiting
    /\ last_grant.kind = "landing"
    /\ takeoff_queue # <<>>
    /\ status[current_runway_user] = "LANDING"

\* C17: an emergency goes first: when declare_emergency returns, in whatever
\* status the aircraft declared it and whether or not the runway was occupied,
\* the landing is granted, the aircraft is in neither queue, its status is
\* LANDING and it is the runway's user.
C17_EmergencyFirst ==
    [][(in_emergency # None /\ in_emergency' = None)
       => /\ last_grant'.occasion = "emergency"
          /\ in_emergency \notin Range(takeoff_queue')
          /\ in_emergency \notin Range(landing_queue')
          /\ runway_occupied'
          /\ current_runway_user' = in_emergency
          /\ status'[in_emergency] = "LANDING"]_vars

(***************************************************************************)
(* Properties of the HTTP request builder, checked under SpecBuilder       *)
(***************************************************************************)
\* The strings made of "http://" or "https://" and something after it
WellFormed(url) ==
    \E i \in 1..(Len(url) + 1) :
       \/ url = Http \o SubSeq(url, i, Len(url))
       \/ url = Https \o SubSeq(url, i, Len(url))

\* C18: build() rejects malformed URLs: whenever the last call on the builder
\* was build(), it raised ValueError if the builder's URL is empty or does not
\* start with "http://" or "https://", and otherwise returned an HttpRequest
\* carrying the builder's URL and method.
C18_BuildRejectsMalformedUrls ==
    outcome.kind \in {"ValueError", "HttpRequest"}
    => IF builder.url = <<>> \/ ~WellFormed(builder.url)
       THEN outcome.kind = "ValueError"
       ELSE /\ outcome.kind = "HttpRequest"
            /\ outcome.request.url = builder.url
            /\ outcome.request.method = builder.method

\* build() has rejected a URL that is not empty
C18_Witness ==
    /\ outcome.kind = "ValueError"
    /\ builder.url # <<>>
    /\ builder.url[1] = "h"

====
